---- MODULE Spec2Model ----
(***************************************************************************)
(* Model of the tweet / retweet / comment handlers of src/server.js.       *)
(*                                                                         *)
(* The store is the three mongoose collections (Tweet, Comment, User).     *)
(* A tweet's _id and its public key postedTweetTime are assigned together  *)
(* at creation; the model names a tweet by its _id and assumes that no two *)
(* documents are created within the same second, so that the lookup        *)
(* findOne({postedTweetTime: k}) finds the one tweet created with key k.   *)
(* A user's _id (req.user.id) and username (req.user.username) come from   *)
(* the same token and name the same user; req.params.userName is a         *)
(* separate input of the retweet and like routes.                          *)
(***************************************************************************)
EXTENDS Integers, Sequences, FiniteSets, TLC

\* ---------------------------------------------------------------- bounds
MaxTweets == 3          \* tweet documents ever created
MaxComments == 2        \* comment documents ever created
MaxTasks == 2           \* requests in flight at once (interleaved handlers)
MaxOps == 4             \* requests handled in one run

Users == {"u1", "u2"}
Contents == {"a", "b"}

Null == 0               \* null / undefined reference
NoUser == "-"           \* the postedBy of a comment that was never given one
TweetIds == 1..MaxTweets
CommentIds == 1..MaxComments

VARIABLES
    tweets,         \* Tweet collection: _id -> document
    comments,       \* Comment collection: _id -> document
    users,          \* User collection: username -> document
    nextTweetId,    \* next fresh Tweet _id
    nextCommentId,  \* next fresh Comment _id
    last,           \* the last request handled and its response
    ops,            \* number of requests handled so far
    tasks           \* handlers in flight (interleaved executions only)

vars == <<tweets, comments, users, nextTweetId, nextCommentId, last, ops, tasks>>
store == <<tweets, comments, users>>

\* ----------------------------------------------------- array operations
\* Array.prototype.indexOf: 0-based index of the first occurrence, or -1.
IndexOf(s, x) ==
    IF \E i \in 1..Len(s) : s[i] = x
    THEN (CHOOSE i \in 1..Len(s) : s[i] = x /\ \A j \in 1..(i - 1) : s[j] # x) - 1
    ELSE -1

Includes(s, x) == \E i \in 1..Len(s) : s[i] = x

\* Array.prototype.unshift / push.
Unshift(s, x) == <<x>> \o s
Push(s, x) == Append(s, x)

\* Array.prototype.splice(idx, 1) with a 0-based idx.
Splice1(s, idx) == [i \in 1..(Len(s) - 1) |-> IF i <= idx THEN s[i] ELSE s[i + 1]]

\* Array.prototype.filter(e => e !== x), also MongoDB's $pull of a value.
Without(s, x) == SelectSeq(s, LAMBDA e : e # x)

Range(s) == {s[i] : i \in 1..Len(s)}

\* ------------------------------------------------------------ documents
\* Tweet.create for a composed tweet, then postedBy set and saved.
NewTweet(content, user) ==
    [content |-> content, postedBy |-> user, likes |-> <<>>, retweets |-> <<>>,
     comments |-> <<>>, isEdited |-> FALSE, likeTweetBtn |-> "black",
     retweetBtn |-> "black", retweetedFrom |-> Null, isRetweeted |-> FALSE]

\* Tweet.create for a retweet: a snapshot of the addressed tweet.
NewRetweetBroken(tweet, userName, originalTweetId) ==
    [content |-> tweet.content, postedBy |-> tweet.postedBy, likes |-> <<>>,
     retweets |-> Push(tweet.retweets, userName), comments |-> <<>>,
     isEdited |-> FALSE, likeTweetBtn |-> tweet.likeTweetBtn,
     retweetBtn |-> "green", retweetedFrom |-> originalTweetId,
     isRetweeted |-> TRUE]

NewRetweetUnlinked(tweet, userName, originalTweetId) ==
    [content |-> tweet.content, postedBy |-> tweet.postedBy, likes |-> tweet.likes,
     retweets |-> Push(tweet.retweets, userName), comments |-> tweet.comments,
     isEdited |-> tweet.isEdited, likeTweetBtn |-> tweet.likeTweetBtn,
     retweetBtn |-> "green", retweetedFrom |-> Null, isRetweeted |-> TRUE]

NewRetweet(tweet, userName, originalTweetId) ==
    [content |-> tweet.content, postedBy |-> tweet.postedBy, likes |-> tweet.likes,
     retweets |-> Push(tweet.retweets, userName), comments |-> tweet.comments,
     isEdited |-> tweet.isEdited, likeTweetBtn |-> tweet.likeTweetBtn,
     retweetBtn |-> "green", retweetedFrom |-> originalTweetId,
     isRetweeted |-> TRUE]

\* Comment.create, then postedBy set and saved (Null until then).
NewComment(content, user) ==
    [content |-> content, postedBy |-> user, likes |-> <<>>, isEdited |-> FALSE,
     likeCommentBtn |-> "black"]

\* const originalTweetId = tweet.retweetedFrom || tweet._id
OriginalTweetId(tw, id) ==
    IF tw[id].retweetedFrom # Null THEN tw[id].retweetedFrom ELSE id

\* ------------------------------------------------------ store operations
Insert(coll, id, doc) == coll @@ (id :> doc)

\* A delete that also removes the documents whose retweetedFrom is id.
DeleteCascade(coll, id) ==
    [i \in {j \in DOMAIN coll \ {id} :
                ~("retweetedFrom" \in DOMAIN coll[j] /\ coll[j].retweetedFrom = id)}
        |-> coll[i]]

Delete(coll, id) == [i \in DOMAIN coll \ {id} |-> coll[i]]

\* Tweet.updateMany({$or: [{_id: o}, {retweetedFrom: o}]}, {comments: cs})
PropagateCommentsBroken(tw, o, cs) ==
    [i \in DOMAIN tw |-> IF i = o THEN [tw[i] EXCEPT !.comments = cs] ELSE tw[i]]

PropagateComments(tw, o, cs) ==
    [i \in DOMAIN tw |->
        IF i = o \/ tw[i].retweetedFrom = o
        THEN [tw[i] EXCEPT !.comments = cs] ELSE tw[i]]

\* Tweet.updateMany({$or: [{_id: o}, {retweetedFrom: o}]}, {likes: ls})
PropagateLikesBroken(tw, o, ls) ==
    [i \in DOMAIN tw |-> IF i = o THEN [tw[i] EXCEPT !.likes = ls] ELSE tw[i]]

PropagateLikes(tw, o, ls) ==
    [i \in DOMAIN tw |->
        IF i = o \/ tw[i].retweetedFrom = o
        THEN [tw[i] EXCEPT !.likes = ls] ELSE tw[i]]

\* Tweet.updateMany({retweetedFrom: o}, {content: c, isEdited: true})
PropagateEditBroken(tw, o, c) ==
    [i \in DOMAIN tw |->
        IF tw[i].retweetedFrom = o
        THEN [tw[i] EXCEPT !.content = c] ELSE tw[i]]

PropagateEdit(tw, o, c) ==
    [i \in DOMAIN tw |->
        IF tw[i].retweetedFrom = o
        THEN [tw[i] EXCEPT !.content = c, !.isEdited = TRUE] ELSE tw[i]]

\* document.save(): writes the paths the handler modified, if the document
\* is still in the collection.
SaveLikes(tw, id, ls, btn) ==
    IF id \in DOMAIN tw
    THEN [tw EXCEPT ![id].likes = ls, ![id].likeTweetBtn = btn] ELSE tw

SaveComments(tw, id, cs) ==
    IF id \in DOMAIN tw THEN [tw EXCEPT ![id].comments = cs] ELSE tw

SaveContent(tw, id, c) ==
    IF id \in DOMAIN tw
    THEN [tw EXCEPT ![id].content = c, ![id].isEdited = TRUE] ELSE tw

\* Tweet.findByIdAndUpdate(o, {$push: {retweets: userName}})
PushRetweet(tw, o, userName) ==
    IF o \in DOMAIN tw THEN [tw EXCEPT ![o].retweets = Push(@, userName)] ELSE tw

\* Tweet.findByIdAndUpdate(o, {$pull: {retweets: userName}})
PullRetweet(tw, o, userName) ==
    IF o \in DOMAIN tw THEN [tw EXCEPT ![o].retweets = Without(@, userName)] ELSE tw

\* user.tweets.unshift(id); user.save()
AddUserTweet(us, userName, id) == [us EXCEPT ![userName].tweets = Unshift(@, id)]

\* user.tweets = user.tweets.filter(t => t !== id); user.save()
RemoveUserTweet(us, userName, id) == [us EXCEPT ![userName].tweets = Without(@, id)]

\* A toggle that pushes the user whether or not the user is in the array.
ToggleLikesBroken(ls, userName) == Push(ls, userName)

\* The like toggle on the in-memory document (indexOf, then push or splice).
ToggleLikes(ls, userName) ==
    IF IndexOf(ls, userName) = -1 THEN Push(ls, userName)
    ELSE Splice1(ls, IndexOf(ls, userName))

ToggleBtn(ls, userName) ==
    IF IndexOf(ls, userName) = -1 THEN "deeppink" ELSE "black"

\* The retweet copies of o.
Copies(tw, o) == {i \in DOMAIN tw : tw[i].isRetweeted /\ tw[i].retweetedFrom = o}

\* Copy c carries the mirrored fields of o.
Mirrors(tw, c, o) ==
    /\ tw[c].content = tw[o].content
    /\ tw[c].isEdited = tw[o].isEdited
    /\ tw[c].likes = tw[o].likes
    /\ tw[c].comments = tw[o].comments

\* ------------------------------------------------------------- responses
NoPre == <<>>
NoBody == <<>>

\* What is remembered of the state a propagating mutation started in:
\* the mirrored fields in which some copy of o was out of step with o.
MutationPre(tw, o) ==
    [stale |->
        {f \in {"content", "likes", "comments"} :
            \E c \in Copies(tw, o) :
                \/ f = "content" /\ <<tw[c].content, tw[c].isEdited>>
                                        # <<tw[o].content, tw[o].isEdited>>
                \/ f = "likes" /\ tw[c].likes # tw[o].likes
                \/ f = "comments" /\ tw[c].comments # tw[o].comments}]

\* What a like toggle remembers of the state it started in: the stale fields
\* of the copies, every document's likes, and whether the request before it
\* was a completed like toggle of the same document by the same user.
LikePre(docs, stale, prev, op, userName, id) ==
    [stale |-> stale,
     likes |-> [i \in DOMAIN docs |-> docs[i].likes],
     twice |-> /\ prev.op = op /\ prev.status = "ok"
               /\ prev.userName = userName /\ prev.target = id]

Resp(op, branch, caller, userName, target, content, status, made, pre) ==
    [op |-> op, branch |-> branch, caller |-> caller, userName |-> userName,
     target |-> target, content |-> content, status |-> status, made |-> made,
     pre |-> pre, body |-> NoBody]

\* The response of a read: for every tweet returned, the two button colours
\* the client shows as "liked by me" and "retweeted by me".
ReadResp(op, caller, userName, target, status, body) ==
    [Resp(op, "-", caller, userName, target, "-", status, Null, NoPre)
        EXCEPT !.body = body]

\* A handler slot with no request in flight.
IdleTask == [kind |-> "idle"]

Init ==
    /\ tweets = <<>>
    /\ comments = <<>>
    /\ users = [u \in Users |-> [tweets |-> <<>>]]
    /\ nextTweetId = 1
    /\ nextCommentId = 1
    /\ last = Resp("none", "-", "-", "-", Null, "-", "none", Null, NoPre)
    /\ ops = 0
    /\ tasks = [s \in 1..MaxTasks |-> IdleTask]

\* One more request is handled (runs are cut after MaxOps requests).
Handled == ops < MaxOps /\ ops' = ops + 1

\* ------------------------------------------------ handlers, run to the end
\* POST /feed (compose tweet)
Compose(caller, content) ==
    /\ Handled
    /\ nextTweetId <= MaxTweets
    /\ tweets' = Insert(tweets, nextTweetId, NewTweet(content, caller))
    /\ users' = AddUserTweet(users, caller, nextTweetId)
    /\ nextTweetId' = nextTweetId + 1
    /\ last' = Resp("compose", "-", caller, "-", Null, content, "ok", nextTweetId,
                    NoPre)
    /\ UNCHANGED <<comments, nextCommentId, tasks>>

\* POST /feed/comment/:tweetId (compose comment)
ComposeComment(caller, tweetId, content) ==
    /\ Handled
    /\ nextCommentId <= MaxComments
    /\ nextCommentId' = nextCommentId + 1
    /\ IF tweetId \notin DOMAIN tweets
          \/ OriginalTweetId(tweets, tweetId) \notin DOMAIN tweets
       THEN /\ comments' = Insert(comments, nextCommentId, NewComment(content, NoUser))
            /\ last' = Resp("comment", "-", caller, "-", tweetId, content, "NotFound",
                            nextCommentId, NoPre)
            /\ UNCHANGED tweets
       ELSE LET o == OriginalTweetId(tweets, tweetId)
                cs == Unshift(tweets[o].comments, nextCommentId)
            IN  /\ comments' = Insert(comments, nextCommentId,
                                      NewComment(content, caller))
                /\ tweets' = PropagateComments(SaveComments(tweets, o, cs), o, cs)
                /\ last' = Resp("comment", "-", caller, "-", tweetId, content, "ok",
                                nextCommentId, MutationPre(tweets, o))
    /\ UNCHANGED <<users, nextTweetId, tasks>>

\* The retweet copies that findOneAndDelete({retweetedFrom: o, postedBy: id})
\* can match.
RetweetedTweets(tw, o, caller) ==
    {c \in DOMAIN tw : tw[c].retweetedFrom = o /\ tw[c].postedBy = caller}

\* What the retweet route remembers of the state it started in.
RetweetPre(tw, us, o, userName) ==
    [retweets |-> IF o \in DOMAIN tw THEN tw[o].retweets ELSE <<>>,
     count |-> Len(us[userName].tweets)]

\* RETWEET is only allowed if the tweet is an original tweet.
IsRetweetOfRetweetOff(tweet) == FALSE

IsRetweetOfRetweet(tweet) == tweet.isRetweeted

\* POST /post/:userName/retweet/:tweetId, RETWEET branch
RetweetBranch(caller, userName, tweetId) ==
    LET tweet == tweets[tweetId]
        o == OriginalTweetId(tweets, tweetId)
        pre == RetweetPre(tweets, users, o, userName)
    IN  IF IsRetweetOfRetweet(tweet)
        THEN /\ last' = Resp("retweet", "retweet", caller, userName, tweetId, "-",
                             "InvalidOperation", Null, pre)
             /\ UNCHANGED <<tweets, users, nextTweetId>>
        ELSE /\ nextTweetId <= MaxTweets
             /\ tweets' = PushRetweet(
                    Insert(tweets, nextTweetId, NewRetweet(tweet, userName, o)),
                    o, userName)
             /\ users' = AddUserTweet(users, userName, nextTweetId)
             /\ nextTweetId' = nextTweetId + 1
             /\ last' = Resp("retweet", "retweet", caller, userName, tweetId, "-",
                             "ok", nextTweetId, pre)

\* POST /post/:userName/retweet/:tweetId, UN-RETWEET branch
UnRetweetBranch(caller, userName, tweetId) ==
    LET o == OriginalTweetId(tweets, tweetId)
        pre == RetweetPre(tweets, users, o, userName)
    IN  IF RetweetedTweets(tweets, o, caller) = {}
        THEN \* no copy found: the handler ends without sending a response
             /\ last' = Resp("retweet", "unretweet", caller, userName, tweetId, "-",
                             "none", Null, pre)
             /\ UNCHANGED <<tweets, users, nextTweetId>>
        ELSE \E c \in RetweetedTweets(tweets, o, caller) :
             /\ tweets' = PullRetweet(Delete(tweets, c), o, userName)
             /\ users' = RemoveUserTweet(users, userName, c)
             /\ last' = Resp("retweet", "unretweet", caller, userName, tweetId, "-",
                             "ok", c, pre)
             /\ UNCHANGED nextTweetId

\* Check if the user has already retweeted: tweet.retweets.indexOf(userName)
AlreadyRetweeted(tw, tweetId, userName) ==
    IndexOf(tw[tweetId].retweets, userName) # -1

\* POST /post/:userName/retweet/:tweetId
Retweet(caller, userName, tweetId) ==
    /\ Handled
    /\ IF tweetId \notin DOMAIN tweets
       THEN /\ last' = Resp("retweet", "-", caller, userName, tweetId, "-",
                            "NotFound", Null, NoPre)
            /\ UNCHANGED <<tweets, users, nextTweetId>>
       ELSE IF ~AlreadyRetweeted(tweets, tweetId, userName)
            THEN RetweetBranch(caller, userName, tweetId)
            ELSE UnRetweetBranch(caller, userName, tweetId)
    /\ UNCHANGED <<comments, nextCommentId, tasks>>

\* POST /post/:userName/like/:tweetId
LikeTweet(userName, tweetId) ==
    /\ Handled
    /\ IF tweetId \notin DOMAIN tweets
       THEN /\ last' = Resp("like", "-", "-", userName, tweetId, "-", "NotFound",
                            Null, NoPre)
            /\ UNCHANGED tweets
       ELSE LET ls == ToggleLikes(tweets[tweetId].likes, userName)
                btn == ToggleBtn(tweets[tweetId].likes, userName)
                o == OriginalTweetId(tweets, tweetId)
            IN  /\ tweets' = PropagateLikes(SaveLikes(tweets, tweetId, ls, btn), o, ls)
                /\ last' = Resp("like", "-", "-", userName, tweetId, "-", "ok", Null,
                                LikePre(tweets,
                                        IF o \in DOMAIN tweets
                                        THEN MutationPre(tweets, o).stale ELSE {},
                                        last, "like", userName, tweetId))
    /\ UNCHANGED <<comments, users, nextTweetId, nextCommentId, tasks>>

\* A save that writes the likes to every comment.
SaveCommentLikesBroken(cm, id, ls, btn) ==
    [k \in DOMAIN cm |-> [cm[k] EXCEPT !.likes = ls, !.likeCommentBtn = btn]]

\* comment.likes / comment.likeCommentBtn = ...; comment.save()
SaveCommentLikes(cm, id, ls, btn) ==
    [cm EXCEPT ![id].likes = ls, ![id].likeCommentBtn = btn]

\* POST /comment/:userName/like/:commentId
LikeComment(userName, commentId) ==
    /\ Handled
    /\ IF commentId \notin DOMAIN comments
       THEN /\ last' = Resp("likeComment", "-", "-", userName, commentId, "-",
                            "NotFound", Null, NoPre)
            /\ UNCHANGED comments
       ELSE /\ comments' = SaveCommentLikes(comments, commentId,
                    ToggleLikes(comments[commentId].likes, userName),
                    ToggleBtn(comments[commentId].likes, userName))
            /\ last' = Resp("likeComment", "-", "-", userName, commentId, "-", "ok",
                            Null, LikePre(comments, {}, last, "likeComment",
                                          userName, commentId))
    /\ UNCHANGED <<tweets, users, nextTweetId, nextCommentId, tasks>>

\* An owner check that lets every caller through.
IsOwnerOff(tweet, caller) == TRUE

\* tweet.postedBy.toString() === req.user.id
IsOwner(tweet, caller) == tweet.postedBy = caller

\* POST /deleteTweet/:tweetId
DeleteTweet(caller, tweetId) ==
    /\ Handled
    /\ IF tweetId \notin DOMAIN tweets
       THEN /\ last' = Resp("delete", "-", caller, "-", tweetId, "-", "NotFound",
                            Null, NoPre)
            /\ UNCHANGED <<tweets, users>>
       ELSE IF ~IsOwner(tweets[tweetId], caller)
            THEN /\ last' = Resp("delete", "-", caller, "-", tweetId, "-", "Forbidden",
                                 Null, NoPre)
                 /\ UNCHANGED <<tweets, users>>
            ELSE /\ tweets' = Delete(tweets, tweetId)
                 /\ users' = RemoveUserTweet(users, caller, tweetId)
                 /\ last' = Resp("delete", "-", caller, "-", tweetId, "-", "ok",
                                 Null, NoPre)
    /\ UNCHANGED <<comments, nextTweetId, nextCommentId, tasks>>

\* POST /editTweet/:tweetId
EditTweet(caller, tweetId, content) ==
    /\ Handled
    /\ IF content = ""
       THEN /\ last' = Resp("edit", "-", caller, "-", tweetId, content,
                            "InvalidOperation", Null, NoPre)
            /\ UNCHANGED tweets
       ELSE IF tweetId \notin DOMAIN tweets
               \/ OriginalTweetId(tweets, tweetId) \notin DOMAIN tweets
            THEN /\ last' = Resp("edit", "-", caller, "-", tweetId, content, "NotFound",
                                 Null, NoPre)
                 /\ UNCHANGED tweets
            ELSE LET o == OriginalTweetId(tweets, tweetId)
                 IN  IF ~IsOwner(tweets[o], caller)
                     THEN /\ last' = Resp("edit", "-", caller, "-", tweetId, content,
                                          "Forbidden", Null, NoPre)
                          /\ UNCHANGED tweets
                     ELSE /\ tweets' = PropagateEdit(
                                 SaveContent(tweets, o, content), o, content)
                          /\ last' = Resp("edit", "-", caller, "-", tweetId, content,
                                          "ok", Null, MutationPre(tweets, o))
    /\ UNCHANGED <<comments, users, nextTweetId, nextCommentId, tasks>>

\* Tweet.updateMany({comments: key}, {$pull: {comments: key}}) with the
\* comment's public key postedCommentTime: the comments arrays hold the
\* comments' _ids, which no key equals, so no array changes.
PullCommentKey(tw, commentId) == tw

\* POST /comment/delete/:commentId
\* The route answers "ok" when the update by key runs and InternalFailure
\* when the store rejects the key as a comment reference. The route reads no
\* token: caller is the user who sends the request, which the code never sees.
DeleteComment(caller, commentId) ==
    /\ Handled
    /\ IF commentId \notin DOMAIN comments
       THEN /\ last' = Resp("deleteComment", "-", caller, "-", commentId, "-",
                            "NotFound", Null, NoPre)
            /\ UNCHANGED <<tweets, comments>>
       ELSE /\ comments' = Delete(comments, commentId)
            /\ tweets' = PullCommentKey(tweets, commentId)
            /\ \E st \in {"ok", "InternalFailure"} :
                 last' = Resp("deleteComment", "-", caller, "-", commentId, "-", st,
                              Null, NoPre)
    /\ UNCHANGED <<users, nextTweetId, nextCommentId, tasks>>

\* comment.content = content; comment.isEdited = true; comment.save()
SaveCommentContent(cm, id, content) ==
    [cm EXCEPT ![id].content = content, ![id].isEdited = TRUE]

\* POST /comment/edit/:commentId
\* The route reads no token: caller is the user who sends the request.
EditComment(caller, commentId, content) ==
    /\ Handled
    /\ IF content = ""
       THEN /\ last' = Resp("editComment", "-", caller, "-", commentId, content,
                            "InvalidOperation", Null, NoPre)
            /\ UNCHANGED comments
       ELSE IF commentId \notin DOMAIN comments
            THEN /\ last' = Resp("editComment", "-", caller, "-", commentId, content,
                                 "NotFound", Null, NoPre)
                 /\ UNCHANGED comments
            ELSE /\ comments' = SaveCommentContent(comments, commentId, content)
                 /\ last' = Resp("editComment", "-", caller, "-", commentId, content,
                                 "ok", Null, NoPre)
    /\ UNCHANGED <<tweets, users, nextTweetId, nextCommentId, tasks>>

\* tweet.likes.includes(username) ? "deeppink" : "black"
LikeBtnFor(doc, username) ==
    IF Includes(doc.likes, username) THEN "deeppink" ELSE "black"

\* tweet.retweets.includes(username) ? "green" : "black"
RetweetBtnFor(tweet, username) ==
    IF Includes(tweet.retweets, username) THEN "green" ELSE "black"

\* The buttons of the tweets ids as the route computes them for username.
ComputedBtns(tw, ids, username) ==
    [i \in ids |-> [likeTweetBtn |-> LikeBtnFor(tw[i], username),
                    retweetBtn |-> RetweetBtnFor(tw[i], username)]]

\* The buttons of the tweets ids as the documents hold them.
StoredBtns(tw, ids) ==
    [i \in ids |-> [likeTweetBtn |-> tw[i].likeTweetBtn,
                    retweetBtn |-> tw[i].retweetBtn]]

\* Tweet.find({isRetweeted: false}): the tweets a listing returns (the runs
\* stay below the page size of 20, and all tweets carry the one tag).
Originals(tw) == {i \in DOMAIN tw : ~tw[i].isRetweeted}

\* GET /feed
GetFeed(caller) ==
    /\ Handled
    /\ last' = ReadResp("feed", caller, "-", Null, "ok",
                        ComputedBtns(tweets, Originals(tweets), caller))
    /\ UNCHANGED <<tweets, comments, users, nextTweetId, nextCommentId, tasks>>

\* GET /tweet/:tweetId: the document is returned as it is stored
GetTweet(caller, tweetId) ==
    /\ Handled
    /\ IF tweetId \notin DOMAIN tweets
       THEN last' = ReadResp("tweet", caller, "-", tweetId, "NotFound", NoBody)
       ELSE last' = ReadResp("tweet", caller, "-", tweetId, "ok",
                             StoredBtns(tweets, {tweetId}))
    /\ UNCHANGED <<tweets, comments, users, nextTweetId, nextCommentId, tasks>>

\* GET /profile/:userName: populate drops the ids of deleted tweets
GetProfile(caller, userName) ==
    /\ Handled
    /\ last' = ReadResp("profile", caller, userName, Null, "ok",
                        ComputedBtns(tweets,
                                     Range(users[userName].tweets) \cap DOMAIN tweets,
                                     caller))
    /\ UNCHANGED <<tweets, comments, users, nextTweetId, nextCommentId, tasks>>

\* doc.likeTweetBtn = ...; doc.save() on every tweet listed. The retweetBtn
\* assigned after save() was called is written with it or not (withBtn),
\* depending on when the store driver collects the changes.
TopicSaveTweets(tw, username, withBtn) ==
    [i \in DOMAIN tw |->
        IF tw[i].isRetweeted THEN tw[i]
        ELSE [tw[i] EXCEPT !.likeTweetBtn = LikeBtnFor(tw[i], username),
                           !.retweetBtn = IF withBtn
                                          THEN RetweetBtnFor(tw[i], username)
                                          ELSE @]]

\* docComment.likeCommentBtn = ...; docComment.save() on every comment that
\* populate found for a listed tweet.
TopicSaveComments(cm, tw, username) ==
    [k \in DOMAIN cm |->
        IF \E i \in Originals(tw) : Includes(tw[i].comments, k)
        THEN [cm[k] EXCEPT !.likeCommentBtn = LikeBtnFor(cm[k], username)]
        ELSE cm[k]]

\* GET /topic/:tag
GetTopic(caller) ==
    /\ Handled
    /\ \E withBtn \in BOOLEAN :
            tweets' = TopicSaveTweets(tweets, caller, withBtn)
    /\ comments' = TopicSaveComments(comments, tweets, caller)
    /\ last' = ReadResp("topic", caller, "-", Null, "ok",
                        ComputedBtns(tweets, Originals(tweets), caller))
    /\ UNCHANGED <<users, nextTweetId, nextCommentId, tasks>>

\* populate("comments"): the comments of cs that are in the store, in order
Populated(cm, cs) == SelectSeq(cs, LAMBDA k : k \in DOMAIN cm)

\* GET /feed/comments/:tweetId
GetComments(tweetId) ==
    /\ Handled
    /\ IF tweetId \notin DOMAIN tweets
          \/ OriginalTweetId(tweets, tweetId) \notin DOMAIN tweets
       THEN last' = ReadResp("comments", "-", "-", tweetId, "NotFound", NoBody)
       ELSE last' = ReadResp("comments", "-", "-", tweetId, "ok",
                    Populated(comments,
                              tweets[OriginalTweetId(tweets, tweetId)].comments))
    /\ UNCHANGED <<tweets, comments, users, nextTweetId, nextCommentId, tasks>>

\* The requests of one step. Clients put their own username in the path of
\* the retweet route, so its userName is the username of the token.
Next ==
    \/ \E u \in Users, c \in Contents : Compose(u, c)
    \/ \E u \in Users, t \in TweetIds, c \in Contents : ComposeComment(u, t, c)
    \/ \E u \in Users, t \in TweetIds : Retweet(u, u, t)
    \/ \E n \in Users, t \in TweetIds : LikeTweet(n, t)
    \/ \E n \in Users, k \in CommentIds : LikeComment(n, k)
    \/ \E u \in Users, t \in TweetIds : DeleteTweet(u, t)
    \/ \E u \in Users, t \in TweetIds, c \in Contents \cup {""} : EditTweet(u, t, c)
    \/ \E u \in Users, k \in CommentIds : DeleteComment(u, k)
    \/ \E u \in Users, k \in CommentIds, c \in Contents \cup {""} :
            EditComment(u, k, c)
    \/ \E u \in Users : GetFeed(u)
    \/ \E u \in Users, t \in TweetIds : GetTweet(u, t)
    \/ \E u \in Users, n \in Users : GetProfile(u, n)
    \/ \E u \in Users : GetTopic(u)
    \/ \E t \in TweetIds : GetComments(t)

Spec == Init /\ [][Next]_vars

\* ------------------------------- handlers whose propagation step fails
\* The store rejects the updateMany that follows the save: the route answers
\* 500 from its catch block, with the saved document updated and the other
\* documents untouched.

\* POST /editTweet/:tweetId, updateMany to the retweets fails
EditTweetFail(caller, tweetId, content) ==
    /\ Handled
    /\ content # ""
    /\ tweetId \in DOMAIN tweets
    /\ OriginalTweetId(tweets, tweetId) \in DOMAIN tweets
    /\ tweets[OriginalTweetId(tweets, tweetId)].postedBy = caller
    /\ tweets' = SaveContent(tweets, OriginalTweetId(tweets, tweetId), content)
    /\ last' = Resp("edit", "-", caller, "-", tweetId, content, "InternalFailure",
                    Null, NoPre)
    /\ UNCHANGED <<comments, users, nextTweetId, nextCommentId, tasks>>

\* POST /post/:userName/like/:tweetId, updateMany fails
LikeTweetFail(userName, tweetId) ==
    /\ Handled
    /\ tweetId \in DOMAIN tweets
    /\ tweets' = SaveLikes(tweets, tweetId,
                           ToggleLikes(tweets[tweetId].likes, userName),
                           ToggleBtn(tweets[tweetId].likes, userName))
    /\ last' = Resp("like", "-", "-", userName, tweetId, "-", "InternalFailure",
                    Null, NoPre)
    /\ UNCHANGED <<comments, users, nextTweetId, nextCommentId, tasks>>

\* POST /feed/comment/:tweetId, updateMany fails
ComposeCommentFail(caller, tweetId, content) ==
    /\ Handled
    /\ nextCommentId <= MaxComments
    /\ tweetId \in DOMAIN tweets
    /\ OriginalTweetId(tweets, tweetId) \in DOMAIN tweets
    /\ nextCommentId' = nextCommentId + 1
    /\ comments' = Insert(comments, nextCommentId, NewComment(content, caller))
    /\ tweets' = SaveComments(tweets, OriginalTweetId(tweets, tweetId),
            Unshift(tweets[OriginalTweetId(tweets, tweetId)].comments, nextCommentId))
    /\ last' = Resp("comment", "-", caller, "-", tweetId, content,
                    "InternalFailure", nextCommentId, NoPre)
    /\ UNCHANGED <<users, nextTweetId, tasks>>

NextFail ==
    \/ Next
    \/ \E u \in Users, t \in TweetIds, c \in Contents : EditTweetFail(u, t, c)
    \/ \E n \in Users, t \in TweetIds : LikeTweetFail(n, t)
    \/ \E u \in Users, t \in TweetIds, c \in Contents : ComposeCommentFail(u, t, c)

\* Runs in which a propagation may fail.
SpecFail == Init /\ [][NextFail]_vars

\* --------------------------------------- handlers, interleaved at awaits
\* Each propagating mutation is three store steps: the read of the addressed
\* tweet and of its original (with the validation that follows), the save of
\* the document the handler modified, and the updateMany to the retweets.
\* Between two steps of one handler, steps of the other handlers in flight
\* may run. Tweets are composed and retweeted while no mutation is in flight.
Quiescent == \A s \in DOMAIN tasks : tasks[s].kind = "idle"

FreeSlot(s) ==
    /\ tasks[s].kind = "idle"
    /\ \A r \in 1..(s - 1) : tasks[r].kind # "idle"

At(s, kind, pc) == tasks[s].kind = kind /\ tasks[s].pc = pc

\* POST /editTweet/:tweetId up to the read of the original
EditRead(s, caller, tweetId, content) ==
    /\ Handled
    /\ FreeSlot(s)
    /\ content # ""
    /\ tweetId \in DOMAIN tweets
    /\ OriginalTweetId(tweets, tweetId) \in DOMAIN tweets
    /\ tweets[OriginalTweetId(tweets, tweetId)].postedBy = caller
    /\ tasks' = [tasks EXCEPT ![s] =
            [kind |-> "edit", pc |-> "save", caller |-> caller, target |-> tweetId,
             o |-> OriginalTweetId(tweets, tweetId), content |-> content]]
    /\ UNCHANGED <<tweets, comments, users, nextTweetId, nextCommentId, last>>

\* originalTweet.save()
EditSave(s) ==
    /\ At(s, "edit", "save")
    /\ tweets' = SaveContent(tweets, tasks[s].o, tasks[s].content)
    /\ tasks' = [tasks EXCEPT ![s].pc = "bulk"]
    /\ UNCHANGED <<comments, users, nextTweetId, nextCommentId, last, ops>>

\* Tweet.updateMany({retweetedFrom}, {content, isEdited}) and the response
EditBulk(s) ==
    /\ At(s, "edit", "bulk")
    /\ tweets' = PropagateEdit(tweets, tasks[s].o, tasks[s].content)
    /\ tasks' = [tasks EXCEPT ![s] = IdleTask]
    /\ last' = Resp("edit", "-", tasks[s].caller, "-", tasks[s].target,
                    tasks[s].content, "ok", Null, NoPre)
    /\ UNCHANGED <<comments, users, nextTweetId, nextCommentId, ops>>

\* POST /post/:userName/like/:tweetId up to the toggle on the document read
LikeRead(s, userName, tweetId) ==
    /\ Handled
    /\ FreeSlot(s)
    /\ tweetId \in DOMAIN tweets
    /\ tasks' = [tasks EXCEPT ![s] =
            [kind |-> "like", pc |-> "save", userName |-> userName,
             target |-> tweetId, o |-> OriginalTweetId(tweets, tweetId),
             likes |-> ToggleLikes(tweets[tweetId].likes, userName),
             btn |-> ToggleBtn(tweets[tweetId].likes, userName)]]
    /\ UNCHANGED <<tweets, comments, users, nextTweetId, nextCommentId, last>>

\* tweet.save()
LikeSave(s) ==
    /\ At(s, "like", "save")
    /\ tweets' = SaveLikes(tweets, tasks[s].target, tasks[s].likes, tasks[s].btn)
    /\ tasks' = [tasks EXCEPT ![s].pc = "bulk"]
    /\ UNCHANGED <<comments, users, nextTweetId, nextCommentId, last, ops>>

\* Tweet.updateMany({$or: [{_id}, {retweetedFrom}]}, {likes}) and the response
LikeBulk(s) ==
    /\ At(s, "like", "bulk")
    /\ tweets' = PropagateLikes(tweets, tasks[s].o, tasks[s].likes)
    /\ tasks' = [tasks EXCEPT ![s] = IdleTask]
    /\ last' = Resp("like", "-", "-", tasks[s].userName, tasks[s].target, "-",
                    "ok", Null, NoPre)
    /\ UNCHANGED <<comments, users, nextTweetId, nextCommentId, ops>>

\* POST /feed/comment/:tweetId up to newComment.save(): the comment is
\* created and the original is read
CommentRead(s, caller, tweetId, content) ==
    /\ Handled
    /\ FreeSlot(s)
    /\ nextCommentId <= MaxComments
    /\ tweetId \in DOMAIN tweets
    /\ OriginalTweetId(tweets, tweetId) \in DOMAIN tweets
    /\ nextCommentId' = nextCommentId + 1
    /\ comments' = Insert(comments, nextCommentId, NewComment(content, caller))
    /\ tasks' = [tasks EXCEPT ![s] =
            [kind |-> "comment", pc |-> "save", caller |-> caller,
             target |-> tweetId, o |-> OriginalTweetId(tweets, tweetId),
             content |-> content, made |-> nextCommentId,
             comments |-> Unshift(tweets[OriginalTweetId(tweets, tweetId)].comments,
                                  nextCommentId)]]
    /\ UNCHANGED <<tweets, users, nextTweetId, last>>

\* originalTweet.save()
CommentSave(s) ==
    /\ At(s, "comment", "save")
    /\ tweets' = SaveComments(tweets, tasks[s].o, tasks[s].comments)
    /\ tasks' = [tasks EXCEPT ![s].pc = "bulk"]
    /\ UNCHANGED <<comments, users, nextTweetId, nextCommentId, last, ops>>

\* Tweet.updateMany({$or: [{_id}, {retweetedFrom}]}, {comments}) and the
\* response
CommentBulk(s) ==
    /\ At(s, "comment", "bulk")
    /\ tweets' = PropagateComments(tweets, tasks[s].o, tasks[s].comments)
    /\ tasks' = [tasks EXCEPT ![s] = IdleTask]
    /\ last' = Resp("comment", "-", tasks[s].caller, "-", tasks[s].target,
                    tasks[s].content, "ok", tasks[s].made, NoPre)
    /\ UNCHANGED <<comments, users, nextTweetId, nextCommentId, ops>>

NextConc ==
    \/ Quiescent /\ \E u \in Users, c \in Contents : Compose(u, c)
    \/ Quiescent /\ \E u \in Users, t \in TweetIds : Retweet(u, u, t)
    \/ \E s \in 1..MaxTasks, u \in Users, t \in TweetIds, c \in Contents :
            EditRead(s, u, t, c)
    \/ \E s \in 1..MaxTasks : EditSave(s)
    \/ \E s \in 1..MaxTasks : EditBulk(s)
    \/ \E s \in 1..MaxTasks, n \in Users, t \in TweetIds : LikeRead(s, n, t)
    \/ \E s \in 1..MaxTasks : LikeSave(s)
    \/ \E s \in 1..MaxTasks : LikeBulk(s)
    \/ \E s \in 1..MaxTasks, u \in Users, t \in TweetIds, c \in Contents :
            CommentRead(s, u, t, c)
    \/ \E s \in 1..MaxTasks : CommentSave(s)
    \/ \E s \in 1..MaxTasks : CommentBulk(s)

\* Runs in which propagating mutations interleave.
SpecConc == Init /\ [][NextConc]_vars

\* ------------------------------------- the retweet route, interleaved
\* The retweet route is a chain of awaited store calls: the read of the
\* addressed tweet, then Tweet.create, the user's save and the $push on the
\* original (retweet), or findOneAndDelete, the $pull and the user's save
\* (un-retweet). Steps of other requests may run between two of them.

\* The tweets that the handlers in flight are about to create still fit the
\* bound on the tweets of a run, with room for one more.
RoomToCreate ==
    nextTweetId + Cardinality({r \in DOMAIN tasks : At(r, "retweet", "create")})
        <= MaxTweets

\* Tweet.findOne and the checks that follow it
RetweetRead(s, caller, userName, tweetId) ==
    /\ Handled
    /\ FreeSlot(s)
    /\ IF tweetId \notin DOMAIN tweets
       THEN /\ last' = Resp("retweet", "-", caller, userName, tweetId, "-",
                            "NotFound", Null, NoPre)
            /\ UNCHANGED tasks
       ELSE IF ~AlreadyRetweeted(tweets, tweetId, userName)
                /\ IsRetweetOfRetweet(tweets[tweetId])
            THEN /\ last' = Resp("retweet", "retweet", caller, userName, tweetId,
                                 "-", "InvalidOperation", Null, NoPre)
                 /\ UNCHANGED tasks
            ELSE /\ AlreadyRetweeted(tweets, tweetId, userName)
                    \/ RoomToCreate
                 /\ tasks' = [tasks EXCEPT ![s] =
                        [kind |-> "retweet",
                         pc |-> IF AlreadyRetweeted(tweets, tweetId, userName)
                                THEN "delete" ELSE "create",
                         caller |-> caller, userName |-> userName,
                         target |-> tweetId,
                         o |-> OriginalTweetId(tweets, tweetId),
                         tweet |-> tweets[tweetId], made |-> Null]]
                 /\ UNCHANGED last
    /\ UNCHANGED <<tweets, comments, users, nextTweetId, nextCommentId>>

\* Tweet.create({...}) from the tweet as it was read
RetweetCreate(s) ==
    /\ At(s, "retweet", "create")
    /\ nextTweetId <= MaxTweets
    /\ tweets' = Insert(tweets, nextTweetId,
                        NewRetweet(tasks[s].tweet, tasks[s].userName, tasks[s].o))
    /\ nextTweetId' = nextTweetId + 1
    /\ tasks' = [tasks EXCEPT ![s].pc = "user", ![s].made = nextTweetId]
    /\ UNCHANGED <<comments, users, nextCommentId, last, ops>>

\* User.findOne; user.tweets.unshift(newTweet._id); user.save()
RetweetUser(s) ==
    /\ At(s, "retweet", "user")
    /\ users' = AddUserTweet(users, tasks[s].userName, tasks[s].made)
    /\ tasks' = [tasks EXCEPT ![s].pc = "push"]
    /\ UNCHANGED <<tweets, comments, nextTweetId, nextCommentId, last, ops>>

\* Tweet.findByIdAndUpdate(originalTweetId, {$push: {retweets}}) and the
\* response
RetweetPush(s) ==
    /\ At(s, "retweet", "push")
    /\ tweets' = PushRetweet(tweets, tasks[s].o, tasks[s].userName)
    /\ tasks' = [tasks EXCEPT ![s] = IdleTask]
    /\ last' = Resp("retweet", "retweet", tasks[s].caller, tasks[s].userName,
                    tasks[s].target, "-", "ok", tasks[s].made, NoPre)
    /\ UNCHANGED <<comments, users, nextTweetId, nextCommentId, ops>>

\* Tweet.findOneAndDelete({retweetedFrom, postedBy: req.user.id}); when it
\* finds no copy the handler returns without a response: the request stays
\* open and nothing more runs for it.
UnRetweetDelete(s) ==
    /\ At(s, "retweet", "delete")
    /\ IF RetweetedTweets(tweets, tasks[s].o, tasks[s].caller) = {}
       THEN /\ tasks' = [tasks EXCEPT ![s].pc = "unanswered"]
            /\ UNCHANGED tweets
       ELSE \E c \in RetweetedTweets(tweets, tasks[s].o, tasks[s].caller) :
            /\ tweets' = Delete(tweets, c)
            /\ tasks' = [tasks EXCEPT ![s].pc = "pull", ![s].made = c]
    /\ UNCHANGED <<comments, users, nextTweetId, nextCommentId, last, ops>>

\* Tweet.findByIdAndUpdate(originalTweetId, {$pull: {retweets}})
UnRetweetPull(s) ==
    /\ At(s, "retweet", "pull")
    /\ tweets' = PullRetweet(tweets, tasks[s].o, tasks[s].userName)
    /\ tasks' = [tasks EXCEPT ![s].pc = "filter"]
    /\ UNCHANGED <<comments, users, nextTweetId, nextCommentId, last, ops>>

\* User.findOne; user.tweets = user.tweets.filter(...); user.save() and the
\* response
UnRetweetUser(s) ==
    /\ At(s, "retweet", "filter")
    /\ users' = RemoveUserTweet(users, tasks[s].userName, tasks[s].made)
    /\ tasks' = [tasks EXCEPT ![s] = IdleTask]
    /\ last' = Resp("retweet", "unretweet", tasks[s].caller, tasks[s].userName,
                    tasks[s].target, "-", "ok", tasks[s].made, NoPre)
    /\ UNCHANGED <<tweets, comments, nextTweetId, nextCommentId, ops>>

\* No edit, like toggle or comment attach is in flight.
NoMutationInFlight ==
    \A s \in DOMAIN tasks : tasks[s].kind \notin {"edit", "like", "comment"}

\* Retweet requests race with each other and with one propagating mutation
\* at a time, so that no two propagations overlap.
NextRace ==
    \/ Quiescent /\ \E u \in Users, c \in Contents : Compose(u, c)
    \/ \E s \in 1..MaxTasks, u \in Users, t \in TweetIds : RetweetRead(s, u, u, t)
    \/ \E s \in 1..MaxTasks : RetweetCreate(s)
    \/ \E s \in 1..MaxTasks : RetweetUser(s)
    \/ \E s \in 1..MaxTasks : RetweetPush(s)
    \/ \E s \in 1..MaxTasks : UnRetweetDelete(s)
    \/ \E s \in 1..MaxTasks : UnRetweetPull(s)
    \/ \E s \in 1..MaxTasks : UnRetweetUser(s)
    \/ NoMutationInFlight
        /\ \E s \in 1..MaxTasks, u \in Users, t \in TweetIds, c \in Contents :
            EditRead(s, u, t, c)
    \/ \E s \in 1..MaxTasks : EditSave(s)
    \/ \E s \in 1..MaxTasks : EditBulk(s)
    \/ NoMutationInFlight
        /\ \E s \in 1..MaxTasks, n \in Users, t \in TweetIds : LikeRead(s, n, t)
    \/ \E s \in 1..MaxTasks : LikeSave(s)
    \/ \E s \in 1..MaxTasks : LikeBulk(s)
    \/ NoMutationInFlight
        /\ \E s \in 1..MaxTasks, u \in Users, t \in TweetIds, c \in Contents :
            CommentRead(s, u, t, c)
    \/ \E s \in 1..MaxTasks : CommentSave(s)
    \/ \E s \in 1..MaxTasks : CommentBulk(s)

\* Runs in which retweet requests interleave.
SpecRace == Init /\ [][NextRace]_vars

\* A store step of the request in slot s.
TaskStep(s) ==
    \/ RetweetCreate(s) \/ RetweetUser(s) \/ RetweetPush(s)
    \/ UnRetweetDelete(s) \/ UnRetweetPull(s) \/ UnRetweetUser(s)
    \/ EditSave(s) \/ EditBulk(s)
    \/ LikeSave(s) \/ LikeBulk(s)
    \/ CommentSave(s) \/ CommentBulk(s)

\* The store answers every call: a handler in flight that can take its next
\* step takes it.
SpecRaceFair == SpecRace /\ \A s \in 1..MaxTasks : WF_vars(TaskStep(s))

\* ================================================================ claims
\* The step just taken handled a request of the retweet route made by a
\* user in their own name (the token's user is the userName of the path).
RetweetRequestStep ==
    /\ ops' = ops + 1
    /\ last'.op = "retweet"
    /\ last'.caller = last'.userName

\* The copies of o that are in u's post list: what u's retweets of o created.
UserCopies(tw, us, u, o) == {c \in Copies(tw, o) : Includes(us[u].tweets, c)}

\* C1 - replica invariant: between completed operations every retweet copy has
\* the content, isEdited, likes and comments of the tweet its retweetedFrom
\* refers to.
ReplicaInvariant ==
    \A c \in DOMAIN tweets :
        (tweets[c].isRetweeted /\ tweets[c].retweetedFrom \in DOMAIN tweets)
            => Mirrors(tweets, c, tweets[c].retweetedFrom)

\* A like has just been mirrored onto a copy of an existing original.
ReplicaWitness ==
    /\ last.op = "like" /\ last.status = "ok"
    /\ \E c \in DOMAIN tweets :
        /\ tweets[c].isRetweeted
        /\ tweets[c].retweetedFrom \in DOMAIN tweets
        /\ tweets[c].likes # <<>>
        /\ tweets[c].likes = tweets[tweets[c].retweetedFrom].likes

\* C4 as stated - a retweet request addressed to a retweet copy always fails
\* with InvalidOperation, creates no tweet and changes no tweet's retweets.
NoChainedRetweetsAlways ==
    [][(RetweetRequestStep
        /\ last'.target \in DOMAIN tweets
        /\ tweets[last'.target].isRetweeted)
       => (/\ last'.status = "InvalidOperation"
           /\ DOMAIN tweets' = DOMAIN tweets
           /\ \A i \in DOMAIN tweets : tweets'[i].retweets = tweets[i].retweets)]_vars

\* C4 as amended - a retweet request by u addressed to a retweet copy whose
\* own retweets array does not hold u fails with InvalidOperation, creates no
\* tweet and changes no tweet's retweets.
NoChainedRetweets ==
    [][(RetweetRequestStep
        /\ last'.target \in DOMAIN tweets
        /\ tweets[last'.target].isRetweeted
        /\ ~Includes(tweets[last'.target].retweets, last'.userName))
       => (/\ last'.status = "InvalidOperation"
           /\ DOMAIN tweets' = DOMAIN tweets
           /\ \A i \in DOMAIN tweets : tweets'[i].retweets = tweets[i].retweets)]_vars

\* A retweet request on a copy has just been refused.
NoChainedRetweetsWitness ==
    /\ last.op = "retweet" /\ last.status = "InvalidOperation"
    /\ last.caller = last.userName
    /\ last.target \in DOMAIN tweets
    /\ tweets[last.target].isRetweeted
    /\ ~Includes(tweets[last.target].retweets, last.userName)

\* C5 as stated - every tweet is an original, or a copy whose retweetedFrom
\* refers to an existing original.
StructuralInvariantStrict ==
    \A i \in DOMAIN tweets :
        \/ ~tweets[i].isRetweeted
        \/ /\ tweets[i].retweetedFrom # Null
           /\ tweets[i].retweetedFrom \in DOMAIN tweets
           /\ ~tweets[tweets[i].retweetedFrom].isRetweeted

\* C5 as amended - every tweet is an original, or a copy with a non-null
\* retweetedFrom; the tweet it refers to, while it exists, is an original.
StructuralInvariant ==
    \A i \in DOMAIN tweets :
        \/ ~tweets[i].isRetweeted
        \/ /\ tweets[i].retweetedFrom # Null
           /\ tweets[i].retweetedFrom \in DOMAIN tweets
                => ~tweets[tweets[i].retweetedFrom].isRetweeted

\* An original has just been deleted and a copy of it is left.
StructuralWitness ==
    /\ last.op = "delete" /\ last.status = "ok"
    /\ \E i \in DOMAIN tweets :
        /\ tweets[i].isRetweeted
        /\ tweets[i].retweetedFrom = last.target
        /\ tweets[i].retweetedFrom \notin DOMAIN tweets

\* C6 - a retweet of original O by u (not yet in O.retweets) followed at once by
\* u's next request on O (the un-retweet) leaves O.retweets and the length of
\* u's post list as they were before the pair.
RetweetUnretweetPair ==
    [][(/\ last.op = "retweet" /\ last.branch = "retweet" /\ last.status = "ok"
        /\ last.caller = last.userName
        /\ RetweetRequestStep
        /\ last'.userName = last.userName
        /\ last'.target = last.target)
       => (/\ last.target \in DOMAIN tweets'
           /\ tweets'[last.target].retweets = last.pre.retweets
           /\ Len(users'[last.userName].tweets) = last.pre.count)]_vars

\* C7 - when U and V have both retweeted original O, the un-retweet of O by U
\* deletes exactly U's copy, removes only U from O.retweets and the copy from
\* U's post list, and leaves V's copy, V's post list and O.retweets = {V}.
UnretweetOnlyCallersCopy ==
    [][\A U \in Users : \A V \in Users \ {U}, O \in DOMAIN tweets :
        (/\ RetweetRequestStep
         /\ last'.userName = U /\ last'.target = O
         /\ ~tweets[O].isRetweeted
         /\ Range(tweets[O].retweets) = {U, V}
         /\ Len(tweets[O].retweets) = 2
         /\ Cardinality(UserCopies(tweets, users, U, O)) = 1
         /\ Cardinality(UserCopies(tweets, users, V, O)) = 1
         /\ UserCopies(tweets, users, U, O) # UserCopies(tweets, users, V, O))
        => (/\ DOMAIN tweets' = DOMAIN tweets \ UserCopies(tweets, users, U, O)
            /\ tweets'[O].retweets = <<V>>
            /\ users'[V] = users[V]
            /\ \A c \in UserCopies(tweets, users, U, O) :
                 users'[U].tweets = Without(users[U].tweets, c)
            /\ \A c \in UserCopies(tweets, users, V, O) : tweets'[c] = tweets[c])]_vars

\* C8 - whether a retweet request by u takes the retweet or the un-retweet
\* branch is decided by u's membership in the retweets of the canonical
\* original of the addressed tweet.
MembershipOnCanonical ==
    [][(/\ RetweetRequestStep
        /\ last'.target \in DOMAIN tweets
        /\ OriginalTweetId(tweets, last'.target) \in DOMAIN tweets)
       => (last'.branch = "unretweet"
            <=> Includes(tweets[OriginalTweetId(tweets, last'.target)].retweets,
                         last'.userName))]_vars

\* C9 - for every existing original O the length of O.retweets is the number
\* of existing retweet copies of O.
RetweetCountInSync ==
    \A o \in DOMAIN tweets :
        ~tweets[o].isRetweeted
            => Len(tweets[o].retweets) = Cardinality(Copies(tweets, o))

\* C10 - a retweet of original O by u, not in O.retweets, creates exactly one
\* tweet, a copy of O with O's content, likes and comments of that moment,
\* appends u to O.retweets and puts the copy at the head of u's post list.
RetweetEffect ==
    [][\A u \in Users, O \in DOMAIN tweets :
        (/\ ops' = ops + 1
         /\ last'.op = "retweet" /\ last'.userName = u /\ last'.target = O
         /\ ~tweets[O].isRetweeted
         /\ ~Includes(tweets[O].retweets, u))
        => (/\ last'.status = "ok"
            /\ \E n \in DOMAIN tweets' \ DOMAIN tweets :
                /\ DOMAIN tweets' = DOMAIN tweets \cup {n}
                /\ tweets'[n].isRetweeted
                /\ tweets'[n].retweetedFrom = O
                /\ tweets'[n].content = tweets[O].content
                /\ tweets'[n].likes = tweets[O].likes
                /\ tweets'[n].comments = tweets[O].comments
                /\ users'[u].tweets = Unshift(users[u].tweets, n)
            /\ tweets'[O].retweets = Push(tweets[O].retweets, u))]_vars

\* A retweet of an original with likes has just made its copy.
RetweetEffectWitness ==
    /\ last.op = "retweet" /\ last.branch = "retweet" /\ last.status = "ok"
    /\ last.made \in DOMAIN tweets
    /\ tweets[last.made].isRetweeted
    /\ tweets[last.made].likes # <<>>
    /\ last.target \in DOMAIN tweets
    /\ Includes(tweets[last.target].retweets, last.userName)

\* The step just taken completed a propagating mutation (edit, like toggle or
\* comment attach) addressed to a tweet whose canonical original exists.
PropagationStep ==
    /\ ops' = ops + 1
    /\ last'.op \in {"edit", "like", "comment"}
    /\ last'.status = "ok"
    /\ last'.target \in DOMAIN tweets
    /\ OriginalTweetId(tweets, last'.target) \in DOMAIN tweets

\* C2 - after one completed edit, like toggle or comment attach on original O,
\* whatever the copies held before, every copy's patched field equals O's; for
\* an edit O and the copies carry the new content and isEdited = TRUE.
ConvergenceOfOnePropagation ==
    [][PropagationStep =>
        LET O == OriginalTweetId(tweets, last'.target) IN
        /\ O \in DOMAIN tweets'
        /\ last'.op = "edit" =>
            \A i \in Copies(tweets', O) \cup {O} :
                tweets'[i].content = last'.content /\ tweets'[i].isEdited
        /\ last'.op = "like" =>
            \A c \in Copies(tweets', O) : tweets'[c].likes = tweets'[O].likes
        /\ last'.op = "comment" =>
            \A c \in Copies(tweets', O) : tweets'[c].comments = tweets'[O].comments]_vars

\* A like toggle has just completed on an original whose copy held stale
\* likes, left by a like whose propagation had failed.
ConvergenceWitness ==
    /\ last.op = "like" /\ last.status = "ok"
    /\ "likes" \in last.pre.stale
    /\ last.target \in DOMAIN tweets
    /\ OriginalTweetId(tweets, last.target) \in DOMAIN tweets
    /\ Copies(tweets, OriginalTweetId(tweets, last.target)) # {}
    /\ \A c \in Copies(tweets, OriginalTweetId(tweets, last.target)) :
        tweets[c].likes = tweets[OriginalTweetId(tweets, last.target)].likes

\* C3 - once all the propagating mutations that ran concurrently on an
\* original have completed, every copy's content, isEdited, likes and
\* comments equal the original's.
ConvergenceUnderConcurrency == Quiescent => ReplicaInvariant

\* The part of C3 that the interleavings keep: once all have completed, every
\* copy's likes and comments equal the original's.
LikesAndCommentsConverge ==
    Quiescent =>
        \A c \in DOMAIN tweets :
            (tweets[c].isRetweeted /\ tweets[c].retweetedFrom \in DOMAIN tweets)
                => /\ tweets[c].likes = tweets[tweets[c].retweetedFrom].likes
                   /\ tweets[c].comments = tweets[tweets[c].retweetedFrom].comments

\* The step just taken handled a mutation request (comment attach, like
\* toggle, edit, retweet) addressed to a retweet copy whose original is gone.
DanglingCopyStep ==
    /\ ops' = ops + 1
    /\ last'.op \in {"comment", "like", "edit", "retweet"}
    /\ last'.target \in DOMAIN tweets
    /\ tweets[last'.target].isRetweeted
    /\ tweets[last'.target].retweetedFrom \notin DOMAIN tweets

\* C11 - every mutation addressed to a retweet copy whose original has been
\* deleted fails with NotFound and leaves every tweet, every comment and every
\* user's post list unchanged.
DanglingMutationsFail ==
    [][DanglingCopyStep
        => (/\ last'.status = "NotFound"
            /\ tweets' = tweets
            /\ comments' = comments
            /\ users' = users)]_vars

\* The step just taken completed the second of two successive like toggles
\* of one document by one user.
SecondToggle(op) ==
    /\ last.op = op /\ last.status = "ok"
    /\ ops' = ops + 1
    /\ last'.op = op /\ last'.status = "ok"
    /\ last'.userName = last.userName
    /\ last'.target = last.target

\* The likes of every document of docs are, as a set and in number, those of
\* the snapshot before.
SameLikes(docs, before) ==
    /\ DOMAIN docs = DOMAIN before
    /\ \A i \in DOMAIN docs :
        /\ Range(docs[i].likes) = Range(before[i])
        /\ Len(docs[i].likes) = Len(before[i])

\* C12 - like symmetry: two successive like toggles of a tweet or a comment
\* by one user restore its likes set and like count; for a tweet, on the
\* original and on every retweet copy.
LikeSymmetry ==
    [][/\ SecondToggle("like") => SameLikes(tweets', last.pre.likes)
       /\ SecondToggle("likeComment") => SameLikes(comments', last.pre.likes)]_vars

\* A user has just toggled a like on and off again on a tweet that has a
\* retweet copy: neither the original nor the copy holds the user.
LikeSymmetryWitness ==
    /\ last.op = "like" /\ last.status = "ok"
    /\ last.pre.twice
    /\ last.target \in DOMAIN tweets
    /\ OriginalTweetId(tweets, last.target) \in DOMAIN tweets
    /\ Copies(tweets, OriginalTweetId(tweets, last.target)) # {}
    /\ \A i \in Copies(tweets, OriginalTweetId(tweets, last.target))
                \cup {OriginalTweetId(tweets, last.target)} :
        ~Includes(tweets[i].likes, last.userName)

\* C13 - comment attach is newest-first and mirrored: after a comment is
\* composed on a tweet, addressed by the id of the original O or of any copy of
\* O, the comment is the first element of O.comments, the comments attached
\* before follow in their previous order, and every copy of O has the same
\* comments sequence.
CommentAttach ==
    [][(/\ ops' = ops + 1
        /\ last'.op = "comment" /\ last'.status = "ok")
       => LET O == OriginalTweetId(tweets, last'.target) IN
          /\ O \in DOMAIN tweets'
          /\ last'.made \in DOMAIN comments'
          /\ tweets'[O].comments = <<last'.made>> \o tweets[O].comments
          /\ \A r \in Copies(tweets', O) :
                tweets'[r].comments = tweets'[O].comments]_vars

\* A second comment has just been composed through a retweet copy: original
\* and copy list it before the first.
CommentAttachWitness ==
    /\ last.op = "comment" /\ last.status = "ok"
    /\ last.target \in DOMAIN tweets
    /\ tweets[last.target].isRetweeted
    /\ tweets[last.target].retweetedFrom \in DOMAIN tweets
    /\ Len(tweets[tweets[last.target].retweetedFrom].comments) = 2
    /\ tweets[tweets[last.target].retweetedFrom].comments[1] = last.made
    /\ tweets[last.target].comments = tweets[tweets[last.target].retweetedFrom].comments

\* C14 - comment deletion detaches the comment: after a delete-comment
\* request on an existing comment, the comment is no longer in the store and
\* its id occurs in the comments of no tweet, original or copy.
CommentDeletionDetaches ==
    [][(/\ ops' = ops + 1
        /\ last'.op = "deleteComment"
        /\ last'.target \in DOMAIN comments)
       => (/\ last'.target \notin DOMAIN comments'
           /\ \A i \in DOMAIN tweets' :
                ~Includes(tweets'[i].comments, last'.target))]_vars

\* The original tweets whose comments refer to comment k.
OwnersOf(tw, k) ==
    {o \in DOMAIN tw : ~tw[o].isRetweeted /\ Includes(tw[o].comments, k)}

\* C15 - comment ownership: between completed operations every comment in the
\* store is referenced by the comments of exactly one original tweet.
CommentOwnership ==
    \A k \in DOMAIN comments : Cardinality(OwnersOf(tweets, k)) = 1

\* C16 - tweet deletion does not cascade: a delete request by the owner
\* (postedBy) of tweet P removes exactly P from the store and P's id from the
\* owner's post list; every other tweet, the copies of P included, every
\* comment and every other user's post list are unchanged.
DeleteDoesNotCascade ==
    [][\A P \in DOMAIN tweets :
        (/\ ops' = ops + 1
         /\ last'.op = "delete" /\ last'.target = P
         /\ last'.caller = tweets[P].postedBy)
        => (/\ last'.status = "ok"
            /\ DOMAIN tweets' = DOMAIN tweets \ {P}
            /\ \A i \in DOMAIN tweets' : tweets'[i] = tweets[i]
            /\ comments' = comments
            /\ users'[last'.caller].tweets = Without(users[last'.caller].tweets, P)
            /\ \A v \in Users \ {last'.caller} : users'[v] = users[v])]_vars

\* An original with a comment and a retweet copy has just been deleted: the
\* copy and the comment are still in the store.
DeleteDoesNotCascadeWitness ==
    /\ last.op = "delete" /\ last.status = "ok"
    /\ last.target \notin DOMAIN tweets
    /\ \A u \in Users : ~Includes(users[u].tweets, last.target)
    /\ \E r \in DOMAIN tweets :
        /\ tweets[r].retweetedFrom = last.target
        /\ tweets[r].comments # <<>>
        /\ Range(tweets[r].comments) \subseteq DOMAIN comments

\* The step just taken handled an edit or a delete of an existing tweet sent
\* by a caller who is not its owner: for a delete the postedBy of the
\* addressed tweet, for an edit the postedBy of its existing original.
NonOwnerStep ==
    /\ ops' = ops + 1
    /\ last'.target \in DOMAIN tweets
    /\ \/ /\ last'.op = "delete"
          /\ last'.caller # tweets[last'.target].postedBy
       \/ /\ last'.op = "edit"
          /\ OriginalTweetId(tweets, last'.target) \in DOMAIN tweets
          /\ last'.caller # tweets[OriginalTweetId(tweets, last'.target)].postedBy

\* C17 as stated - an edit or delete of a tweet requested by a caller who is
\* not its owner is rejected with Forbidden and leaves every tweet and every
\* user's post list unchanged.
OwnerOnlyAlways ==
    [][NonOwnerStep
        => (/\ last'.status = "Forbidden"
            /\ tweets' = tweets
            /\ users' = users)]_vars

\* C17 as amended - a delete, or an edit with non-empty content, of a tweet
\* requested by a caller who is not its owner is rejected with Forbidden and
\* leaves every tweet and every user's post list unchanged.
OwnerOnly ==
    [][(NonOwnerStep /\ (last'.op = "edit" => last'.content # ""))
        => (/\ last'.status = "Forbidden"
            /\ tweets' = tweets
            /\ users' = users)]_vars

\* An edit addressed to a retweet copy by a user who is not the author of its
\* original has just been refused.
OwnerOnlyWitness ==
    /\ last.op = "edit" /\ last.status = "Forbidden"
    /\ last.content # ""
    /\ last.target \in DOMAIN tweets
    /\ tweets[last.target].isRetweeted
    /\ tweets[last.target].retweetedFrom \in DOMAIN tweets
    /\ tweets[tweets[last.target].retweetedFrom].postedBy # last.caller

\* C18 - comment edit and delete are owner-only: an edit or delete of a
\* comment sent by a user who is not the comment's author is rejected with
\* Forbidden and leaves the comment and every tweet's comments unchanged.
CommentOwnerOnly ==
    [][(/\ ops' = ops + 1
        /\ last'.op \in {"deleteComment", "editComment"}
        /\ last'.target \in DOMAIN comments
        /\ comments[last'.target].postedBy \in Users
        /\ last'.caller # comments[last'.target].postedBy)
       => (/\ last'.status = "Forbidden"
           /\ comments' = comments
           /\ \A i \in DOMAIN tweets : tweets'[i].comments = tweets[i].comments)]_vars

\* C19 - caller-relative flags: for every tweet that a read (feed, topic
\* listing, profile listing, single-tweet fetch) returns to a caller, the
\* returned like button is on exactly when the caller is in the tweet's likes
\* and the returned retweet button is on exactly when the caller is in its
\* retweets.
CallerRelativeFlags ==
    (last.op \in {"feed", "topic", "profile", "tweet"} /\ last.status = "ok")
        => \A i \in DOMAIN last.body :
            /\ i \in DOMAIN tweets
            /\ last.body[i].likeTweetBtn = "deeppink"
                <=> Includes(tweets[i].likes, last.caller)
            /\ last.body[i].retweetBtn = "green"
                <=> Includes(tweets[i].retweets, last.caller)

\* The users of ls with userName's membership flipped.
Flipped(ls, userName) ==
    IF userName \in Range(ls) THEN Range(ls) \ {userName}
    ELSE Range(ls) \cup {userName}

\* C20 - likes are recorded against the canonical original: after a like
\* toggle by u addressed to a retweet copy R of an existing original O, the
\* likes of O are O's likes before the call with u's membership flipped,
\* whatever R held.
LikesOnCanonical ==
    [][(/\ ops' = ops + 1
        /\ last'.op = "like" /\ last'.status = "ok"
        /\ last'.target \in DOMAIN tweets
        /\ tweets[last'.target].isRetweeted
        /\ tweets[last'.target].retweetedFrom \in DOMAIN tweets)
       => LET O == tweets[last'.target].retweetedFrom IN
          /\ O \in DOMAIN tweets'
          /\ Range(tweets'[O].likes) = Flipped(tweets[O].likes, last'.userName)]_vars

\* C21 - rejected requests change nothing: every mutation request (compose
\* comment, retweet, like, edit, delete tweet, delete comment, edit comment)
\* answered with NotFound, Forbidden or InvalidOperation leaves the tweets,
\* the comments and the users' post lists exactly as they were.
RejectedChangesNothing ==
    [][(/\ ops' = ops + 1
        /\ last'.op \in {"comment", "retweet", "like", "edit", "delete",
                         "deleteComment", "editComment"}
        /\ last'.status \in {"NotFound", "Forbidden", "InvalidOperation"})
       => (/\ tweets' = tweets
           /\ comments' = comments
           /\ users' = users)]_vars

\* The number of occurrences of x in s.
Occurrences(s, x) == Cardinality({i \in 1..Len(s) : s[i] = x})

\* C22 - no duplicate retweets: under any interleaving of retweet requests,
\* once they have completed, a user occurs at most once in an original's
\* retweets and at most one copy of that original is in the user's post list.
NoDuplicateRetweets ==
    Quiescent =>
        \A o \in DOMAIN tweets : \A u \in Users :
            ~tweets[o].isRetweeted
                => /\ Occurrences(tweets[o].retweets, u) <= 1
                   /\ Cardinality(UserCopies(tweets, users, u, o)) <= 1

\* C23 - a copy created during a concurrent mutation converges: when a
\* retweet of original O runs concurrently with a like toggle, comment attach
\* or edit on O, once both have completed every copy's content, isEdited,
\* likes and comments equal O's.
CopyCreatedInRaceConverges ==
    Quiescent =>
        \A c \in DOMAIN tweets : \A O \in DOMAIN tweets :
            (tweets[c].isRetweeted /\ tweets[c].retweetedFrom = O)
                => /\ tweets[c].content = tweets[O].content
                   /\ tweets[c].isEdited = tweets[O].isEdited
                   /\ tweets[c].likes = tweets[O].likes
                   /\ tweets[c].comments = tweets[O].comments

\* C24 - every retweet request is answered: every retweet or un-retweet
\* request whose target exists eventually gets its response, the un-retweet
\* that finds no copy of the caller included.
EveryRetweetAnswered ==
    \A s \in 1..MaxTasks :
        (tasks[s].kind = "retweet") ~> (tasks[s].kind = "idle")

\* C25 - reads do not write: the read operations (feed, topic listing,
\* profile listing, single-tweet fetch, comment listing) leave every stored
\* field of every tweet and comment unchanged.
ReadsDoNotWrite ==
    [][(/\ ops' = ops + 1
        /\ last'.op \in {"feed", "topic", "profile", "tweet", "comments"})
       => (tweets' = tweets /\ comments' = comments)]_vars

\* The step just taken handled a like toggle or an edit of a comment.
CommentMutationStep ==
    /\ ops' = ops + 1
    /\ last'.op \in {"likeComment", "editComment"}

\* Every comment but k is as it was, and k is still in the store.
OnlyComment(k) ==
    /\ DOMAIN comments' = DOMAIN comments
    /\ \A j \in DOMAIN comments \ {k} : comments'[j] = comments[j]

\* C26 as stated - a like toggle or an edit on a comment changes only that
\* comment's likes (or its content and isEdited) and leaves every tweet
\* unchanged.
CommentMutationsLocalStrict ==
    [][CommentMutationStep
        => (/\ tweets' = tweets
            /\ users' = users
            /\ OnlyComment(last'.target)
            /\ last'.target \in DOMAIN comments =>
                IF last'.op = "likeComment"
                THEN comments'[last'.target] =
                        [comments[last'.target] EXCEPT
                            !.likes = comments'[last'.target].likes]
                ELSE comments'[last'.target] =
                        [comments[last'.target] EXCEPT
                            !.content = comments'[last'.target].content,
                            !.isEdited = comments'[last'.target].isEdited])]_vars

\* C26 as amended - a like toggle on a comment changes only that comment's
\* likes and stored likeCommentBtn, an edit only its content and isEdited;
\* both leave every tweet, its comments and likes included, unchanged.
CommentMutationsLocal ==
    [][CommentMutationStep
        => (/\ tweets' = tweets
            /\ users' = users
            /\ OnlyComment(last'.target)
            /\ last'.target \in DOMAIN comments =>
                IF last'.op = "likeComment"
                THEN comments'[last'.target] =
                        [comments[last'.target] EXCEPT
                            !.likes = comments'[last'.target].likes,
                            !.likeCommentBtn =
                                comments'[last'.target].likeCommentBtn]
                ELSE comments'[last'.target] =
                        [comments[last'.target] EXCEPT
                            !.content = comments'[last'.target].content,
                            !.isEdited = comments'[last'.target].isEdited])]_vars

\* A comment of a retweeted tweet has just been liked: the comment holds the
\* like, and neither the tweet nor its copy does.
CommentMutationsLocalWitness ==
    /\ last.op = "likeComment" /\ last.status = "ok"
    /\ last.target \in DOMAIN comments
    /\ Includes(comments[last.target].likes, last.userName)
    /\ \E c \in DOMAIN tweets :
        /\ tweets[c].isRetweeted
        /\ tweets[c].retweetedFrom \in DOMAIN tweets
        /\ Includes(tweets[c].comments, last.target)
        /\ Includes(tweets[tweets[c].retweetedFrom].comments, last.target)
        /\ tweets[c].likes = <<>>
        /\ tweets[tweets[c].retweetedFrom].likes = <<>>

====
